---- MODULE Spec2Model ----
(***************************************************************************)
(* Model of the ticket office program (src/kasa.cc): the fare engine       *)
(* (add_new_ticket / optimal_ticket_set), the schedule store               *)
(* (add_new_route), the trip validator (check_trip_validity /              *)
(* scan_trip_request) and the trip planner (plan_tickets).                 *)
(*                                                                         *)
(* Pairs (std::pair) are records with fields first and second, as in the   *)
(* source.  C++ vectors indexed from 0 are functions on 0..n-1, except     *)
(* the ticket catalog and the request vectors, which are sequences (the    *)
(* element the source calls v[i] is v[i + 1] here).                        *)
(***************************************************************************)
EXTENDS Integers, Sequences, FiniteSets, TLC

----------------------------------------------------------------------------
(* Program constants and the bounds of the model *)

\* kasa.cc:43 has 927; the model scales the horizon down.
MAX_TRIP_LENGTH == 4

\* <climits>, used at kasa.cc:67, 116, 156
INT_MAX == 2147483647

\* largest ticket price offered to add_new_ticket
MaxPrice == 2

\* largest value of the tickets_sold counter the model follows
MaxSold == 3

\* number of input lines the model reads
MaxLines == 3

\* ticket names offered to add_new_ticket: they differ only in case
TicketNames == {"a", "A"}

Prices == 0..MaxPrice

\* expiration times offered: the grammar (NEW_TICKET_REGEX) admits only
\* positive ones; MAX_TRIP_LENGTH + 1 exercises the clamp
Expirations == 1..(MAX_TRIP_LENGTH + 1)

\* trip lengths offered to optimal_ticket_set, both limits overstepped
TripLengths == (-1)..(MAX_TRIP_LENGTH + 1)

pair(a, b) == [first |-> a, second |-> b]

\* What a read one element past the end of a row (index MAX_TRIP_LENGTH of
\* a vector resized to MAX_TRIP_LENGTH elements) may deliver: memory the row
\* does not own.
PastEndPrices == {0, 1, INT_MAX}

PastEndCells == {pair(0, 0), pair(1, -1), pair(INT_MAX, -1)}

----------------------------------------------------------------------------
(* State *)

VARIABLES
  r_data,          \* main: routes_data, <set of route ids, bus_schedule>
  t_data,          \* main: tickets_data, <ticket catalog, optimal_ticket_set rows>
  tickets_sold,    \* main: int tickets_sold
  ticket_prices,   \* history: the price of each catalogued ticket, by id + 1
  running,         \* FALSE once the process has run into undefined behaviour
                   \* or has been ended by an exception
  last,            \* the last call: its arguments, return value and output
  line,            \* main: std::string line, as the grammars split it
  line_num,        \* main: int line_num
  cerr             \* std::cerr: the reports written, <line number, text>

vars == <<r_data, t_data, tickets_sold, ticket_prices, running, last,
          line, line_num, cerr>>

----------------------------------------------------------------------------
(* Fare engine *)

default_pair == pair(INT_MAX, -1)

\* rows of MAX_TRIP_LENGTH cells: indices 0..MAX_TRIP_LENGTH - 1
RowIndex == 0..(MAX_TRIP_LENGTH - 1)

initialize_optimal_ticket_set ==
  [i \in 0..2 |-> [k \in RowIndex |-> IF k = 0 THEN pair(0, -1) ELSE default_pair]]

name_taken_last_only(tickets, ticket_name) ==
  Len(tickets) > 0 /\ tickets[Len(tickets)].first = ticket_name

\* the duplicate-name loop; std::string::compare is exact
name_taken(tickets, ticket_name) ==
  \E i \in 1..Len(tickets) : tickets[i].first = ticket_name

\* the single-ticket loop: from i down to 1, stopping at the first cell
\* whose price is not above the new one.  past_end is the price a read of
\* row[MAX_TRIP_LENGTH] delivers; a write there lands outside the row.
RECURSIVE single_ticket_loop(_, _, _, _, _)
single_ticket_loop(row, price, id, i, past_end) ==
  IF i <= 0 THEN row
  ELSE IF i \notin RowIndex
       THEN IF past_end > price
            THEN single_ticket_loop(row, price, id, i - 1, past_end)
            ELSE row
       ELSE IF row[i].first > price
            THEN single_ticket_loop([row EXCEPT ![i] = pair(price, id)],
                                    price, id, i - 1, past_end)
            ELSE row

tickets_price_wraps(price, first) ==
  IF first > INT_MAX - price
  THEN (price - INT_MAX - 1) + (first - INT_MAX - 1)
  ELSE price + first

\* (int) std::min((long long) INT_MAX, price + (long long) first), for
\* 0 <= price, first <= INT_MAX: the 64-bit sum cannot wrap
tickets_price(price, first) ==
  IF first > INT_MAX - price THEN INT_MAX ELSE price + first

multi_ticket_loop_from_window(lower, row, price, id, expiration_time) ==
  [j \in RowIndex |->
     IF j >= expiration_time
        /\ row[j].first > tickets_price(price, lower[j - expiration_time].first)
     THEN pair(tickets_price(price, lower[j - expiration_time].first), id)
     ELSE row[j]]

multi_ticket_loop_skipped(lower, row, price, id, expiration_time) == row

multi_ticket_loop_always_stores(lower, row, price, id, expiration_time) ==
  [j \in RowIndex |->
     IF j >= expiration_time + 1
     THEN pair(tickets_price(price, lower[j - expiration_time].first), id)
     ELSE row[j]]

\* the inner loop for one row: j from expiration_time + 1 to
\* MAX_TRIP_LENGTH.  Iteration j reads lower[j - expiration_time] and cell j
\* of the row only, so the iterations are independent; the iteration
\* j = MAX_TRIP_LENGTH reads and writes outside the row.
multi_ticket_loop(lower, row, price, id, expiration_time) ==
  [j \in RowIndex |->
     IF j >= expiration_time + 1
        /\ row[j].first > tickets_price(price, lower[j - expiration_time].first)
     THEN pair(tickets_price(price, lower[j - expiration_time].first), id)
     ELSE row[j]]

add_new_ticket_unclamped(data, ticket_name, price, expiration_time, past_end) ==
  IF name_taken(data.first, ticket_name)
  THEN [ret |-> FALSE, data |-> data]
  ELSE LET exp  == expiration_time
           id   == Len(data.first)
           row0 == single_ticket_loop(data.second[0], price, id, exp, past_end)
           row1 == multi_ticket_loop(row0, data.second[1], price, id, exp)
           row2 == multi_ticket_loop(row1, data.second[2], price, id, exp)
       IN [ret  |-> TRUE,
           data |-> pair(Append(data.first, pair(ticket_name, exp)),
                         [i \in 0..2 |-> CASE i = 0 -> row0
                                           [] i = 1 -> row1
                                           [] i = 2 -> row2])]

add_new_ticket(data, ticket_name, price, expiration_time, past_end) ==
  IF name_taken(data.first, ticket_name)
  THEN [ret |-> FALSE, data |-> data]
  ELSE LET exp  == IF expiration_time > MAX_TRIP_LENGTH
                   THEN MAX_TRIP_LENGTH ELSE expiration_time
           id   == Len(data.first)
           row0 == single_ticket_loop(data.second[0], price, id, exp, past_end)
           row1 == multi_ticket_loop(row0, data.second[1], price, id, exp)
           row2 == multi_ticket_loop(row1, data.second[2], price, id, exp)
       IN [ret  |-> TRUE,
           data |-> pair(Append(data.first, pair(ticket_name, exp)),
                         [i \in 0..2 |-> CASE i = 0 -> row0
                                           [] i = 1 -> row1
                                           [] i = 2 -> row2])]

\* the row indices an accepted add_new_ticket call uses: the index the
\* one-ticket loop starts at, and in the loops over j every j from
\* expiration_time + 1 to MAX_TRIP_LENGTH with the index j - expiration_time
\* of the row below
add_new_ticket_indices(expiration_time) ==
  LET exp == IF expiration_time > MAX_TRIP_LENGTH
             THEN MAX_TRIP_LENGTH ELSE expiration_time
  IN {i \in {exp} : i > 0}
       \cup {j : j \in (exp + 1)..MAX_TRIP_LENGTH}
       \cup {j - exp : j \in (exp + 1)..MAX_TRIP_LENGTH}

\* the row index a query starts from, once it has passed the limits
optimal_ticket_set_indices(trip_length) ==
  IF trip_length > MAX_TRIP_LENGTH \/ trip_length <= 0
  THEN {}
  ELSE {trip_length}

Min2(a, b) == IF a < b THEN a ELSE b

RECURSIVE count_loop_last(_, _, _, _)
count_loop_last(prices, i, tickets_count, best_price) ==
  IF i >= 3 THEN tickets_count
  ELSE count_loop_last(prices, i + 1,
                       IF prices[i + 1] <= best_price THEN i + 1 ELSE tickets_count,
                       Min2(best_price, prices[i + 1]))

\* "Finds how many tickets to buy": prices is the three prices read
RECURSIVE count_loop(_, _, _, _)
count_loop(prices, i, tickets_count, best_price) ==
  IF i >= 3 THEN tickets_count
  ELSE count_loop(prices, i + 1,
                  IF prices[i + 1] < best_price THEN i + 1 ELSE tickets_count,
                  Min2(best_price, prices[i + 1]))

\* optimal_ticket_set[i][pos] as the query reads it
read_cell(table, past, i, pos) ==
  IF pos \in RowIndex THEN table[i][pos] ELSE past[i]

Undefined == [undefined |-> TRUE, out |-> <<>>]

names_loop_once(data, past, tickets_count, pos, out) ==
  IF pos <= 0 THEN [undefined |-> FALSE, out |-> out]
  ELSE IF tickets_count - 1 \notin 0..2 THEN Undefined
  ELSE LET next_id == read_cell(data.second, past, tickets_count - 1, pos).second
       IN IF next_id \notin 0..(Len(data.first) - 1) THEN Undefined
          ELSE [undefined |-> FALSE,
                out |-> Append(out, data.first[next_id + 1].first)]

\* "Obtains names of the tickets from the set".  Reading a row below row 0
\* or a ticket outside the catalog is undefined behaviour.
RECURSIVE names_loop(_, _, _, _, _)
names_loop(data, past, tickets_count, pos, out) ==
  IF pos <= 0 THEN [undefined |-> FALSE, out |-> out]
  ELSE IF tickets_count - 1 \notin 0..2 THEN Undefined
  ELSE LET next_id == read_cell(data.second, past, tickets_count - 1, pos).second
       IN IF next_id \notin 0..(Len(data.first) - 1) THEN Undefined
          ELSE names_loop(data, past, tickets_count - 1,
                          pos - data.first[next_id + 1].second,
                          Append(out, data.first[next_id + 1].first))

optimal_ticket_set_no_upper_limit(data, trip_length, past) ==
  IF trip_length <= 0
  THEN [undefined |-> FALSE, out |-> <<>>]
  ELSE LET prices == [i \in 1..3 |->
                        read_cell(data.second, past, i - 1, trip_length).first]
           tickets_count == count_loop(prices, 0, 0, INT_MAX)
       IN IF tickets_count = 0
          THEN [undefined |-> FALSE, out |-> <<>>]
          ELSE names_loop(data, past, tickets_count, trip_length, <<>>)

optimal_ticket_set(data, trip_length, past) ==
  IF trip_length > MAX_TRIP_LENGTH \/ trip_length <= 0
  THEN [undefined |-> FALSE, out |-> <<>>]
  ELSE LET prices == [i \in 1..3 |->
                        read_cell(data.second, past, i - 1, trip_length).first]
           tickets_count == count_loop(prices, 0, 0, INT_MAX)
       IN IF tickets_count = 0
          THEN [undefined |-> FALSE, out |-> <<>>]
          ELSE names_loop(data, past, tickets_count, trip_length, <<>>)

\* the cells beyond the rows that a query of this length reads
PastReads(trip_length) ==
  IF trip_length = MAX_TRIP_LENGTH
  THEN [0..2 -> PastEndCells]
  ELSE {[i \in 0..2 |-> default_pair]}

----------------------------------------------------------------------------
(* Schedule store *)

\* a bus_schedule with no points
empty_schedule == [p \in {} |-> 0]

create_schedule_point(route, bus_stop) == pair(bus_stop, route)

\* schedule[point] = time (std::map::operator[] followed by assignment)
schedule_put(schedule, point, time) ==
  [p \in (DOMAIN schedule) \cup {point} |-> IF p = point THEN time ELSE schedule[p]]

\* the loop over the stops: FALSE as soon as a time is not above the one
\* before it (last_stop_time starts at 0), TRUE when the loop runs out
RECURSIVE times_loop(_, _, _)
times_loop(stops_on_route, i, last_stop_time) ==
  IF i > Len(stops_on_route) THEN TRUE
  ELSE IF stops_on_route[i].second <= last_stop_time THEN FALSE
  ELSE times_loop(stops_on_route, i + 1, stops_on_route[i].second)

is_valid_new_route_any_number(route_number, stops_on_route, existing_routes) ==
  IF Len(stops_on_route) = 0 THEN FALSE
  ELSE IF ~times_loop(stops_on_route, 1, 0) THEN FALSE
  ELSE LET visited_stops ==
             {stops_on_route[i].first : i \in 1..Len(stops_on_route)}
       IN IF Cardinality(visited_stops) < Len(stops_on_route) THEN FALSE
          ELSE TRUE

is_valid_new_route(route_number, stops_on_route, existing_routes) ==
  IF route_number \in existing_routes THEN FALSE
  ELSE IF Len(stops_on_route) = 0 THEN FALSE
  ELSE IF ~times_loop(stops_on_route, 1, 0) THEN FALSE
  ELSE LET visited_stops ==
             {stops_on_route[i].first : i \in 1..Len(stops_on_route)}
       IN IF Cardinality(visited_stops) < Len(stops_on_route) THEN FALSE
          ELSE TRUE

RECURSIVE insert_loop(_, _, _, _)
insert_loop(route_number, stops_on_route, i, schedule) ==
  IF i > Len(stops_on_route) THEN schedule
  ELSE insert_loop(route_number, stops_on_route, i + 1,
                   schedule_put(schedule,
                                create_schedule_point(route_number,
                                                      stops_on_route[i].first),
                                stops_on_route[i].second))

add_new_route_unchecked(route_number, stops_on_route, existing_routes, schedule) ==
  [ret             |-> is_valid_new_route(route_number, stops_on_route,
                                          existing_routes),
   existing_routes |-> existing_routes \cup {route_number},
   schedule        |-> insert_loop(route_number, stops_on_route, 1, schedule)]

add_new_route(route_number, stops_on_route, existing_routes, schedule) ==
  IF is_valid_new_route(route_number, stops_on_route, existing_routes) = FALSE
  THEN [ret |-> FALSE, existing_routes |-> existing_routes,
        schedule |-> schedule]
  ELSE [ret             |-> TRUE,
        existing_routes |-> existing_routes \cup {route_number},
        schedule        |-> insert_loop(route_number, stops_on_route, 1,
                                        schedule)]

----------------------------------------------------------------------------
(* Trip validator *)

\* trip_points after the first loop: departure and arrival point of each
\* leg in turn
trip_points(stops, routes) ==
  [k \in 1..(2 * Len(routes)) |->
     IF k % 2 = 1
     THEN create_schedule_point(routes[(k + 1) \div 2], stops[(k + 1) \div 2])
     ELSE create_schedule_point(routes[k \div 2], stops[(k \div 2) + 1])]

RECURSIVE points_loop_within_legs(_, _, _)
points_loop_within_legs(points, i, schedule) ==
  IF i + 1 > Len(points) THEN TRUE
  ELSE IF points[i] \notin DOMAIN schedule THEN FALSE
  ELSE IF points[i + 1] \notin DOMAIN schedule THEN FALSE
  ELSE IF schedule[points[i]] > schedule[points[i + 1]] THEN FALSE
  ELSE points_loop_within_legs(points, i + 2, schedule)

\* the second loop, over the consecutive pairs (i, j) of trip_points
RECURSIVE points_loop(_, _, _)
points_loop(points, i, schedule) ==
  IF i + 1 > Len(points) THEN TRUE
  ELSE IF points[i] \notin DOMAIN schedule THEN FALSE
  ELSE IF points[i + 1] \notin DOMAIN schedule THEN FALSE
  ELSE IF schedule[points[i]] > schedule[points[i + 1]] THEN FALSE
  ELSE points_loop(points, i + 1, schedule)

check_trip_validity(stops, routes, schedule) ==
  IF Len(stops) < 2 THEN FALSE
  ELSE IF Len(routes) < 1 THEN FALSE
  ELSE IF Len(stops) # Len(routes) + 1 THEN FALSE
  ELSE points_loop(trip_points(stops, routes), 1, schedule)

departure_points(stops, routes) ==
  [i \in 1..Len(routes) |-> create_schedule_point(routes[i], stops[i])]

arrival_points(stops, routes) ==
  [i \in 1..Len(routes) |-> create_schedule_point(routes[i], stops[i + 1])]

RECURSIVE wait_loop_arrival_stop(_, _, _, _, _, _)
wait_loop_arrival_stop(dep, arr, i, schedule, last_time, acc) ==
  IF i > Len(dep) THEN acc
  ELSE wait_loop_arrival_stop(dep, arr, i + 1, schedule, schedule[arr[i]],
         IF acc.needs_waiting = FALSE /\ schedule[dep[i]] # last_time
         THEN [needs_waiting |-> TRUE, where_needs_to_wait |-> arr[i].first]
         ELSE acc)

\* the loop of scan_trip_request; acc is <needs_waiting, where_needs_to_wait>
RECURSIVE wait_loop(_, _, _, _, _, _)
wait_loop(dep, arr, i, schedule, last_time, acc) ==
  IF i > Len(dep) THEN acc
  ELSE wait_loop(dep, arr, i + 1, schedule, schedule[arr[i]],
         IF acc.needs_waiting = FALSE /\ schedule[dep[i]] # last_time
         THEN [needs_waiting |-> TRUE, where_needs_to_wait |-> dep[i].first]
         ELSE acc)

\* the tuple <travel_time, needs_waiting, where_needs_to_wait>; schedule.at
\* is applied to points of the schedule only when the trip is valid
scan_trip_request(stops, routes, schedule) ==
  LET dep  == departure_points(stops, routes)
      arr  == arrival_points(stops, routes)
      wait == wait_loop(dep, arr, 1, schedule, schedule[dep[1]],
                        [needs_waiting |-> FALSE, where_needs_to_wait |-> ""])
  IN [travel_time         |-> schedule[arr[Len(arr)]] - schedule[dep[1]],
      needs_waiting       |-> wait.needs_waiting,
      where_needs_to_wait |-> wait.where_needs_to_wait]

----------------------------------------------------------------------------
(* Trip planner *)

ticket_set_found(tickets) == IF Len(tickets) = 0 THEN FALSE ELSE TRUE

fare_trip_length_exact(trip_time) == trip_time

\* the trip length handed to optimal_ticket_set
fare_trip_length(trip_time) == trip_time + 1

\* what plan_tickets leaves behind when it returns before the step named
not_scanned ==
  [scanned |-> FALSE, trip_time |-> 0, waits |-> FALSE, where_waits |-> ""]

not_queried == [queried |-> <<>>, optimal_tickets |-> <<>>, undefined |-> FALSE]

scanned_as(scan) ==
  [scanned |-> TRUE, trip_time |-> scan.travel_time,
   waits |-> scan.needs_waiting, where_waits |-> scan.where_needs_to_wait]

plan_result(ret, output, sold, scan, fare) ==
  [ret |-> ret, output |-> output, tickets_sold |-> sold,
   scanned |-> scan.scanned, trip_time |-> scan.trip_time,
   waits |-> scan.waits, where_waits |-> scan.where_waits,
   queried |-> fare.queried, optimal_tickets |-> fare.optimal_tickets,
   undefined |-> fare.undefined]

price_trip_sells_one(scan, data, sold, past) ==
  LET length == fare_trip_length(scan.travel_time)
      r      == optimal_ticket_set(data, length, past)
      fare   == [queried |-> <<length>>, optimal_tickets |-> r.out,
                 undefined |-> r.undefined]
  IN IF r.undefined
     THEN plan_result(TRUE, <<>>, sold, scanned_as(scan), fare)
     ELSE IF ticket_set_found(r.out) = FALSE
     THEN plan_result(TRUE, <<":|">>, sold, scanned_as(scan), fare)
     ELSE plan_result(TRUE, <<"!">> \o r.out, sold + 1,
                      scanned_as(scan), fare)

\* the part of plan_tickets after the scan when no wait is needed: the fare
\* query and the output.  A query that runs into undefined behaviour
\* produces no result.
price_trip(scan, data, sold, past) ==
  LET length == fare_trip_length(scan.travel_time)
      r      == optimal_ticket_set(data, length, past)
      fare   == [queried |-> <<length>>, optimal_tickets |-> r.out,
                 undefined |-> r.undefined]
  IN IF r.undefined
     THEN plan_result(TRUE, <<>>, sold, scanned_as(scan), fare)
     ELSE IF ticket_set_found(r.out) = FALSE
     THEN plan_result(TRUE, <<":|">>, sold, scanned_as(scan), fare)
     ELSE plan_result(TRUE, <<"!">> \o r.out, sold + Len(r.out),
                      scanned_as(scan), fare)

plan_tickets_fare_first(stops, routes, schedule, data, sold, past) ==
  IF check_trip_validity(stops, routes, schedule) = FALSE
  THEN plan_result(FALSE, <<>>, sold, not_scanned, not_queried)
  ELSE LET scan   == scan_trip_request(stops, routes, schedule)
           priced == price_trip(scan, data, sold, past)
       IN IF scan.needs_waiting = TRUE
          THEN [priced EXCEPT !.output = <<":(", scan.where_needs_to_wait>>]
          ELSE priced

plan_tickets_wait_fails(stops, routes, schedule, data, sold, past) ==
  IF check_trip_validity(stops, routes, schedule) = FALSE
  THEN plan_result(FALSE, <<>>, sold, not_scanned, not_queried)
  ELSE LET scan == scan_trip_request(stops, routes, schedule)
       IN IF scan.needs_waiting = TRUE
          THEN plan_result(FALSE, <<":(", scan.where_needs_to_wait>>, sold,
                           scanned_as(scan), not_queried)
          ELSE price_trip(scan, data, sold, past)

plan_tickets(stops, routes, schedule, data, sold, past) ==
  IF check_trip_validity(stops, routes, schedule) = FALSE
  THEN plan_result(FALSE, <<>>, sold, not_scanned, not_queried)
  ELSE LET scan == scan_trip_request(stops, routes, schedule)
       IN IF scan.needs_waiting = TRUE
          THEN plan_result(TRUE, <<":(", scan.where_needs_to_wait>>, sold,
                           scanned_as(scan), not_queried)
          ELSE price_trip(scan, data, sold, past)

\* the cells beyond the rows that planning this trip reads
PastReadsOfTrip(stops, routes, schedule) ==
  IF check_trip_validity(stops, routes, schedule)
  THEN PastReads(fare_trip_length(
                   scan_trip_request(stops, routes, schedule).travel_time))
  ELSE PastReads(0)

----------------------------------------------------------------------------
(* Actions *)

Init ==
  /\ r_data = pair({}, empty_schedule)
  /\ t_data = pair(<<>>, initialize_optimal_ticket_set)
  /\ tickets_sold = 0
  /\ ticket_prices = <<>>
  /\ running = TRUE
  /\ last = [op |-> "init"]
  /\ line = [form |-> ""]
  /\ line_num = 0
  /\ cerr = <<>>

AddNewRoute(route_number, stops_on_route) ==
  /\ running
  /\ \E r \in {add_new_route(route_number, stops_on_route, r_data.first,
                              r_data.second)} :
        /\ r_data' = pair(r.existing_routes, r.schedule)
        /\ last' = [op |-> "route", route_number |-> route_number,
                    stops_on_route |-> stops_on_route, ret |-> r.ret]
  /\ UNCHANGED <<t_data, tickets_sold, ticket_prices, running>>

AddNewTicket(ticket_name, price, expiration_time, past_end) ==
  /\ running
  /\ \E r \in {add_new_ticket(t_data, ticket_name, price, expiration_time,
                               past_end)} :
        /\ t_data' = r.data
        /\ ticket_prices' = IF r.ret THEN Append(ticket_prices, price)
                            ELSE ticket_prices
        /\ last' = [op |-> "ticket", ticket_name |-> ticket_name,
                    price |-> price, expiration_time |-> expiration_time,
                    ret |-> r.ret]
  /\ UNCHANGED <<r_data, tickets_sold, running>>

\* a direct call of optimal_ticket_set, as the fare engine's own test does
OptimalTicketSet(trip_length, past) ==
  /\ running
  /\ \E r \in {optimal_ticket_set(t_data, trip_length, past)} :
        /\ last' = [op |-> "fare", trip_length |-> trip_length,
                    undefined |-> r.undefined, out |-> r.out]
        /\ running' = ~r.undefined
  /\ UNCHANGED <<r_data, t_data, tickets_sold, ticket_prices>>

PlanTickets_inserting_lookup(stops, routes, past) ==
  /\ running
  /\ \E r \in {plan_tickets(stops, routes, r_data.second, t_data,
                             tickets_sold, past)} :
        /\ r.tickets_sold <= MaxSold
        /\ tickets_sold' = r.tickets_sold
        /\ running' = ~r.undefined
        /\ last' = [op |-> "plan", stops |-> stops, routes |-> routes,
                    ret |-> r.ret, output |-> r.output,
                    scanned |-> r.scanned, trip_time |-> r.trip_time,
                    waits |-> r.waits, where_waits |-> r.where_waits,
                    queried |-> r.queried,
                    optimal_tickets |-> r.optimal_tickets,
                    undefined |-> r.undefined]
  /\ \E looked \in {IF Len(stops) >= 1 /\ Len(routes) >= 1
                     THEN {create_schedule_point(routes[1], stops[1])}
                     ELSE {}} :
        r_data' = pair(r_data.first,
                       [p \in DOMAIN r_data.second \cup looked |->
                          IF p \in DOMAIN r_data.second
                          THEN r_data.second[p] ELSE 0])
  /\ UNCHANGED <<t_data, ticket_prices>>

\* the model follows tickets_sold up to MaxSold
PlanTickets(stops, routes, past) ==
  /\ running
  /\ \E r \in {plan_tickets(stops, routes, r_data.second, t_data,
                             tickets_sold, past)} :
        /\ r.tickets_sold <= MaxSold
        /\ tickets_sold' = r.tickets_sold
        /\ running' = ~r.undefined
        /\ last' = [op |-> "plan", stops |-> stops, routes |-> routes,
                    ret |-> r.ret, output |-> r.output,
                    scanned |-> r.scanned, trip_time |-> r.trip_time,
                    waits |-> r.waits, where_waits |-> r.where_waits,
                    queried |-> r.queried,
                    optimal_tickets |-> r.optimal_tickets,
                    undefined |-> r.undefined]
  /\ UNCHANGED <<r_data, t_data, ticket_prices>>

----------------------------------------------------------------------------
(* Inputs *)

SeqsUpTo(S, lo, hi) == UNION {[1..n -> S] : n \in lo..hi}

RouteNumbers == {1, 2}

StopNames == {"A", "B"}

\* the <stop, time> pairs route requests are made of, for the schedule
\* store on its own
StopTimes ==
  {pair("A", 0), pair("A", 1), pair("B", 1), pair("B", 2), pair("B", 3),
   pair("A", 4)}

RouteInfos == SeqsUpTo(StopTimes, 0, 2)

TripStops == SeqsUpTo(StopNames, 1, 3)

TripRoutes == SeqsUpTo(RouteNumbers, 0, 2)

\* the smaller input sets of the whole program: every route that can be
\* accepted over these stop times, an empty one, one running backwards and
\* one that takes MAX_TRIP_LENGTH, a minute more than any fare covers
ProgramRouteInfos ==
  {<<>>,
   <<pair("A", 1), pair("B", 2)>>, <<pair("A", 1), pair("B", 3)>>,
   <<pair("B", 2), pair("A", 3)>>, <<pair("B", 2), pair("A", 4)>>,
   <<pair("B", 3), pair("A", 4)>>, <<pair("B", 2), pair("A", 1)>>,
   <<pair("B", 2), pair("A", MAX_TRIP_LENGTH + 2)>>}

\* trips of one or two legs, and one with a route too many
ProgramTrips ==
  {<<s, r>> : s \in SeqsUpTo(StopNames, 2, 2), r \in SeqsUpTo(RouteNumbers, 1, 1)}
  \cup
  {<<s, r>> : s \in SeqsUpTo(StopNames, 3, 3), r \in SeqsUpTo(RouteNumbers, 2, 2)}
  \cup {<< <<"A", "B">>, <<1, 2>> >>}

ProgramExpirations == {2, MAX_TRIP_LENGTH + 1}

PastEndOf(expiration_time) ==
  IF expiration_time >= MAX_TRIP_LENGTH THEN PastEndPrices ELSE {INT_MAX}

----------------------------------------------------------------------------
(* Specifications *)

\* the fare engine on its own
NextTickets ==
  \/ \E n \in TicketNames, p \in Prices, e \in Expirations :
       \E g \in PastEndOf(e) :
         AddNewTicket(n, p, e, g) /\ UNCHANGED <<line, line_num, cerr>>
  \/ \E d \in TripLengths : \E g \in PastReads(d) :
       OptimalTicketSet(d, g) /\ UNCHANGED <<line, line_num, cerr>>

SpecTickets == Init /\ [][NextTickets]_vars

\* the schedule store and the trip validator, with no ticket on sale
NextRoutes ==
  \/ \E n \in RouteNumbers, s \in RouteInfos :
       AddNewRoute(n, s) /\ UNCHANGED <<line, line_num, cerr>>
  \/ \E s \in TripStops, r \in TripRoutes :
       \E g \in PastReadsOfTrip(s, r, r_data.second) :
         PlanTickets(s, r, g) /\ UNCHANGED <<line, line_num, cerr>>

SpecRoutes == Init /\ [][NextRoutes]_vars

\* the whole program: the three requests of process_line
Next ==
  \/ \E n \in RouteNumbers, s \in ProgramRouteInfos :
       AddNewRoute(n, s) /\ UNCHANGED <<line, line_num, cerr>>
  \/ \E e \in ProgramExpirations :
       \E g \in PastEndOf(e) :
         AddNewTicket("a", 1, e, g) /\ UNCHANGED <<line, line_num, cerr>>
  \/ \E t \in ProgramTrips :
       \E g \in PastReadsOfTrip(t[1], t[2], r_data.second) :
         PlanTickets(t[1], t[2], g) /\ UNCHANGED <<line, line_num, cerr>>

Spec == Init /\ [][Next]_vars

----------------------------------------------------------------------------
(* Dispatcher *)

\* A line of the model is the text as the regular expressions split it:
\* form is the grammar the whole text matches ("route", "ticket", "query"),
\* "other" for a text that matches none and "" for the empty line; numbers
\* are the matches of NUMBER_REGEX in order, each a sequence of decimal
\* digits; names are the matches of STOP_NAME_REGEX in order; name is the
\* ticket name that TICKET_NAME delivers.

\* what stoi delivers when it throws std::out_of_range
out_of_range == -1

RECURSIVE stoi_loop(_, _, _)
stoi_loop(digits, i, acc) ==
  IF i > Len(digits) THEN acc
  ELSE IF acc > (INT_MAX - digits[i]) \div 10 THEN out_of_range
  ELSE stoi_loop(digits, i + 1, acc * 10 + digits[i])

\* std::stoi on a sequence of decimal digits
stoi(digits) == stoi_loop(digits, 1, 0)

regex_int(numbers, i) == stoi(numbers[i])

\* a conversion of the line throws: nothing catches it, the process ends
throws(numbers) == \E i \in 1..Len(numbers) : regex_int(numbers, i) = out_of_range

\* the times loop of parse_and_run_new_route over the numbers after the
\* first: hours times 60 pushed, minutes added
parse_times(numbers) ==
  [k \in 1..(Len(numbers) \div 2) |->
     regex_int(numbers, 2 * k) * 60
       + (IF 2 * k + 1 <= Len(numbers) THEN regex_int(numbers, 2 * k + 1) ELSE 0)]

route_info_of(stops, times) ==
  [i \in 1..Len(times) |-> pair(stops[i], times[i])]

check_line(text, reg) == text.form = reg

report_error(txt, line_num_) == pair(line_num_, txt)

process_line_reports_line_num(matched, err, txt, line_num_) ==
  IF ~matched THEN <<report_error(txt, line_num_)>>
  ELSE IF err THEN <<report_error(txt, line_num_)>>
  ELSE <<>>

process_line_reports_twice(matched, err, txt, line_num_) ==
  IF ~matched \/ err
  THEN <<report_error(txt, line_num_ + 1), report_error(txt, line_num_ + 1)>>
  ELSE <<>>

\* what process_line writes to std::cerr: matched is FALSE when the final
\* else was taken, err is the flag the three calls set
process_line_reports(matched, err, txt, line_num_) ==
  IF ~matched THEN <<report_error(txt, line_num_ + 1)>>
  ELSE IF err THEN <<report_error(txt, line_num_ + 1)>>
  ELSE <<>>

\* the end of one pass of main's loop over a line process_line returned from
LineDone(matched, err, txt) ==
  /\ cerr' = cerr \o process_line_reports(matched, err, txt, line_num)
  /\ line_num' = line_num + 1

\* std::terminate after an exception nothing catches
Terminate ==
  /\ running' = FALSE
  /\ UNCHANGED <<r_data, t_data, tickets_sold, ticket_prices, last,
                 line_num, cerr>>

parse_and_run_new_route(text) ==
  IF throws(text.numbers) THEN Terminate
  ELSE IF Len(parse_times(text.numbers)) # Len(text.names)
  THEN /\ last' = [op |-> "route",
                   route_number |-> regex_int(text.numbers, 1),
                   stops_on_route |-> <<>>, ret |-> FALSE]
       /\ UNCHANGED <<r_data, t_data, tickets_sold, ticket_prices, running>>
       /\ LineDone(TRUE, TRUE, text)
  ELSE /\ AddNewRoute(regex_int(text.numbers, 1),
                      route_info_of(text.names, parse_times(text.numbers)))
       /\ LineDone(TRUE, ~last'.ret, text)

parse_and_run_new_ticket(text) ==
  IF throws(text.numbers) THEN Terminate
  ELSE /\ \E g \in PastEndOf(regex_int(text.numbers, 3)) :
            AddNewTicket(text.name,
                         regex_int(text.numbers, 1) * 100
                           + regex_int(text.numbers, 2),
                         regex_int(text.numbers, 3), g)
       /\ LineDone(TRUE, ~last'.ret, text)

parse_and_run_plan_tickets(text) ==
  IF throws(text.numbers) THEN Terminate
  ELSE LET routes == [i \in 1..Len(text.numbers) |-> regex_int(text.numbers, i)]
       IN /\ \E g \in PastReadsOfTrip(text.names, routes, r_data.second) :
               PlanTickets(text.names, routes, g)
          /\ LineDone(TRUE, ~last'.ret, text)

process_line(text) ==
  IF check_line(text, "route") THEN parse_and_run_new_route(text)
  ELSE IF check_line(text, "ticket") THEN parse_and_run_new_ticket(text)
  ELSE IF check_line(text, "query") THEN parse_and_run_plan_tickets(text)
  ELSE /\ LineDone(FALSE, FALSE, text)
       /\ UNCHANGED <<r_data, t_data, tickets_sold, ticket_prices, running,
                      last>>

\* one pass of main's loop: getline, process_line unless the line is empty,
\* line_num++
MainLoop(text) ==
  /\ running
  /\ line_num < MaxLines
  /\ line' = text
  /\ IF text.form = ""
     THEN /\ line_num' = line_num + 1
          /\ UNCHANGED <<r_data, t_data, tickets_sold, ticket_prices, running,
                         last, cerr>>
     ELSE process_line(text)

\* a number no int holds
TooLong == <<9, 9, 9, 9, 9, 9, 9, 9, 9, 9>>

\* 5:55, 5:56 and the minute MAX_TRIP_LENGTH - 1 after 5:55, as digits
FirstTime == << <<5>>, <<5, 5>> >>

NextTime == << <<5>>, <<5, 6>> >>

LastTime == << <<5>>, <<5, 4 + MAX_TRIP_LENGTH>> >>

RouteLine(number, times, names) ==
  [form |-> "route", names |-> names,
   numbers |-> <<number>> \o
               [k \in 1..(2 * Len(times)) |->
                  times[(k + 1) \div 2][IF k % 2 = 1 THEN 1 ELSE 2]]]

TicketLine(name, whole, cents, expiration) ==
  [form |-> "ticket", name |-> name, numbers |-> <<whole, cents, expiration>>]

QueryLine(names, numbers) ==
  [form |-> "query", names |-> names, numbers |-> numbers]

\* the lines offered to main: the empty line, a text of no grammar, and
\* lines of each grammar that are accepted, rejected, or hold a number
\* beyond int
Lines ==
  {[form |-> ""], [form |-> "other"],
   RouteLine(<<1>>, <<>>, <<>>),
   RouteLine(<<1>>, <<FirstTime, NextTime>>, <<"A", "B">>),
   RouteLine(<<2>>, <<NextTime, LastTime>>, <<"B", "A">>),
   RouteLine(<<2>>, <<NextTime, FirstTime>>, <<"B", "A">>),
   RouteLine(TooLong, <<FirstTime>>, <<"A">>),
   TicketLine("a", <<1>>, <<0, 0>>, <<2>>),
   TicketLine("a", <<2>>, <<5, 0>>, TooLong),
   QueryLine(<<"A", "B">>, << <<1>> >>),
   QueryLine(<<"B", "A">>, << <<2>> >>),
   QueryLine(<<"A", "B", "A">>, << <<1>>, <<2>> >>),
   QueryLine(<<"A", "B">>, <<TooLong>>)}

NextLines == \E text \in Lines : MainLoop(text)

SpecLines == Init /\ [][NextLines]_vars

----------------------------------------------------------------------------
(* What the claims speak of *)

RECURSIVE SumSeq(_)
SumSeq(q) == IF Len(q) = 0 THEN 0 ELSE q[1] + SumSeq(Tail(q))

MinOf(S) == CHOOSE m \in S : \A x \in S : m <= x

\* the catalogued tickets, by position in the catalog
TicketIds == 1..Len(t_data.first)

\* the multisets of one, two or three catalogued tickets
Combinations == SeqsUpTo(TicketIds, 1, 3)

WindowSum(c) == SumSeq([k \in 1..Len(c) |-> t_data.first[c[k]].second])

PriceSum(c) == SumSeq([k \in 1..Len(c) |-> ticket_prices[c[k]]])

Covering(d) == {c \in Combinations : WindowSum(c) >= d}

CheapestCover(d) == MinOf({PriceSum(c) : c \in Covering(d)})

PriceOfName(n) ==
  ticket_prices[CHOOSE i \in TicketIds : t_data.first[i].first = n]

ListPrice(names) == SumSeq([k \in 1..Len(names) |-> PriceOfName(names[k])])

\* the four conditions of an acceptable route
RouteConditions(id, stops, existing) ==
  /\ id \notin existing
  /\ Len(stops) > 0
  /\ \A i, j \in 1..Len(stops) : i # j => stops[i].first # stops[j].first
  /\ \A i \in 1..(Len(stops) - 1) : stops[i].second < stops[i + 1].second

Departure(stops, routes, i) == pair(stops[i], routes[i])

Arrival(stops, routes, i) == pair(stops[i + 1], routes[i])

\* a valid trip, as the trip validator's contract words it
ValidTrip(stops, routes, schedule) ==
  /\ Len(stops) >= 2
  /\ Len(routes) >= 1
  /\ Len(stops) = Len(routes) + 1
  /\ \A i \in 1..Len(routes) :
       /\ Departure(stops, routes, i) \in DOMAIN schedule
       /\ Arrival(stops, routes, i) \in DOMAIN schedule
  /\ \A i \in 1..Len(routes) :
       schedule[Departure(stops, routes, i)] <= schedule[Arrival(stops, routes, i)]
  /\ \A i \in 1..(Len(routes) - 1) :
       schedule[Arrival(stops, routes, i)]
         <= schedule[Departure(stops, routes, i + 1)]

\* the legs (counted from 1) that leave at another time than the leg
\* before them arrives
WaitLegs(stops, routes, schedule) ==
  {i \in 2..Len(routes) :
     schedule[Departure(stops, routes, i)]
       # schedule[Arrival(stops, routes, i - 1)]}

TripDuration(stops, routes, schedule) ==
  schedule[Arrival(stops, routes, Len(routes))]
    - schedule[Departure(stops, routes, 1)]

----------------------------------------------------------------------------
(* The claims *)

\* C1: after any accepted registrations, for every duration d in
\* 1..MaxHorizon the list best_combination(d) returns costs the minimum
\* over the multisets of one to three registered tickets whose windows sum
\* to at least d, and it is empty exactly when there is no such multiset.
C1_BestCombinationIsCheapest ==
  (last.op = "fare" /\ last.trip_length \in 1..MAX_TRIP_LENGTH) =>
    /\ ~last.undefined
    /\ (last.out = <<>>) <=> (Covering(last.trip_length) = {})
    /\ last.out # <<>> => ListPrice(last.out) = CheapestCover(last.trip_length)

\* C2: register_route is accepted if and only if the id is new, the stop
\* list is not empty, the stop names are pairwise distinct and the times
\* strictly increase, for every stop list with times from minute 0 on.
C2_RouteAcceptedIffConditions ==
  [][last'.op = "route" =>
       (last'.ret <=> RouteConditions(last'.route_number,
                                      last'.stops_on_route, r_data.first))]_vars

\* C3: a rejected register_route call leaves the route-id set and the
\* schedule exactly as they were, however often it is repeated.
C3_RejectedRouteChangesNothing ==
  [][(last'.op = "route" /\ last'.ret = FALSE) => r_data' = r_data]_vars

\* a route with a used id and stops of its own was rejected, and its first
\* stop is not in the schedule
C3_Witness ==
  /\ last.op = "route"
  /\ last.ret = FALSE
  /\ last.route_number \in r_data.first
  /\ Len(last.stops_on_route) = 2
  /\ times_loop(last.stops_on_route, 1, 0)
  /\ create_schedule_point(last.route_number, last.stops_on_route[1].first)
       \notin DOMAIN r_data.second

\* C4: register_ticket is rejected if and only if the name equals, case
\* for case, the name of a registered ticket; a rejection leaves the catalog
\* and every cell unchanged; every other call is accepted.
C4_TicketRejectedIffDuplicate ==
  [][last'.op = "ticket" =>
       /\ (last'.ret = FALSE) <=>
            (\E i \in 1..Len(t_data.first) :
               t_data.first[i].first = last'.ticket_name)
       /\ last'.ret = FALSE => t_data' = t_data
       /\ last'.ret = TRUE =>
            /\ Len(t_data'.first) = Len(t_data.first) + 1
            /\ t_data'.first[Len(t_data'.first)].first = last'.ticket_name]_vars

\* both names, alike but for case, are catalogued, and a call with a free
\* price and an expiration beyond the horizon was rejected for its name
C4_Witness ==
  /\ last.op = "ticket"
  /\ last.ret = FALSE
  /\ last.price = 0
  /\ last.expiration_time > MAX_TRIP_LENGTH
  /\ Len(t_data.first) = 2
  /\ t_data.first[1].first = "a"
  /\ t_data.first[2].first = "A"

\* C5: validate returns valid if and only if there are at least two stops
\* and one route, one stop more than routes, every leg's departure and
\* arrival point is in the schedule, and the times along departure_0,
\* arrival_0, departure_1, ... never decrease.
C5_ValidIffContract ==
  last.op = "plan" =>
    (last.ret <=> ValidTrip(last.stops, last.routes, r_data.second))

\* a trip of two legs, all of whose points are scheduled, was found invalid
\* because the second leg leaves before the first arrives
C5_Witness ==
  /\ last.op = "plan"
  /\ last.ret = FALSE
  /\ Len(last.routes) = 2
  /\ Len(last.stops) = 3
  /\ \A i \in 1..2 :
       /\ Departure(last.stops, last.routes, i) \in DOMAIN r_data.second
       /\ Arrival(last.stops, last.routes, i) \in DOMAIN r_data.second
       /\ r_data.second[Departure(last.stops, last.routes, i)]
            <= r_data.second[Arrival(last.stops, last.routes, i)]
  /\ r_data.second[Departure(last.stops, last.routes, 2)]
       < r_data.second[Arrival(last.stops, last.routes, 1)]

\* C6: on a validated itinerary scan reports a wait if and only if some leg
\* after the first leaves at another time than the leg before it arrives;
\* first_wait_stop is the departure stop of the first such leg, and the
\* empty string when there is none.
C6_WaitIffMismatch ==
  (last.op = "plan" /\ last.scanned) =>
    LET W == WaitLegs(last.stops, last.routes, r_data.second)
    IN /\ last.waits <=> (W # {})
       /\ W # {} => last.where_waits = last.stops[MinOf(W)]
       /\ W = {} => last.where_waits = ""

\* a trip of two legs has to wait at its middle stop, which is not its
\* first stop
C6_Witness ==
  /\ last.op = "plan"
  /\ last.scanned
  /\ last.waits
  /\ Len(last.stops) = 3
  /\ last.where_waits = last.stops[2]
  /\ last.stops[2] # last.stops[1]
  /\ last.stops[2] # last.stops[3]

\* C7: for a valid itinerary with no wait plan_trip asks the fare engine for
\* exactly T + 1, T being the last arrival less the first departure, and
\* answers with the priced list when it is not empty and with "no fare"
\* otherwise.
C7_QueriesDurationPlusOne ==
  (last.op = "plan" /\ last.ret /\ ~last.waits) =>
    LET T == TripDuration(last.stops, last.routes, r_data.second)
    IN /\ last.queried = <<T + 1>>
       /\ \E g \in PastReads(T + 1) :
            LET r == optimal_ticket_set(t_data, T + 1, g)
            IN /\ r.undefined = last.undefined
               /\ r.out = last.optimal_tickets
               /\ ~r.undefined =>
                    last.output = IF r.out = <<>> THEN <<":|">>
                                  ELSE <<"!">> \o r.out

\* a trip of two legs that takes 2 is priced with the one ticket on sale,
\* whose window is exactly 2, taken twice
C7_Witness ==
  /\ last.op = "plan"
  /\ last.ret
  /\ ~last.waits
  /\ Len(last.stops) = 3
  /\ TripDuration(last.stops, last.routes, r_data.second) = 2
  /\ t_data.first = <<pair("a", 2)>>
  /\ last.queried = <<3>>
  /\ last.output = <<"!", "a", "a">>

\* C8: for a valid itinerary with a leg that leaves at another time than
\* the leg before it arrives, plan_trip answers WaitRequired(first wait
\* stop) whatever tickets are on sale, asks the fare engine nothing and
\* leaves the tickets-sold counter alone.
C8_WaitSkipsFareQuery ==
  [][(/\ last'.op = "plan"
      /\ ValidTrip(last'.stops, last'.routes, r_data.second)
      /\ WaitLegs(last'.stops, last'.routes, r_data.second) # {}) =>
       /\ last'.output =
            <<":(", last'.stops[MinOf(WaitLegs(last'.stops, last'.routes,
                                               r_data.second))]>>
       /\ last'.queried = <<>>
       /\ tickets_sold' = tickets_sold]_vars

\* a trip that has to wait while tickets covering its duration are on sale
C8_Witness ==
  /\ last.op = "plan"
  /\ last.waits
  /\ last.output = <<":(", "B">>
  /\ Covering(last.trip_time + 1) # {}

\* C9: plan_trip reports invalid if and only if validate fails; it then
\* gives none of the three outcomes, runs neither scan nor fare query and
\* changes no state; a valid trip that has to wait or has no fare is a
\* successful query.
C9_InvalidIffValidateFails ==
  [][last'.op = "plan" =>
       /\ (last'.ret = FALSE) <=>
            ~ValidTrip(last'.stops, last'.routes, r_data.second)
       /\ last'.ret = FALSE =>
            /\ last'.output = <<>>
            /\ ~last'.scanned
            /\ last'.queried = <<>>
            /\ UNCHANGED <<r_data, t_data, tickets_sold, ticket_prices>>
       /\ (last'.ret = TRUE /\ ~last'.undefined) =>
            /\ last'.output # <<>>
            /\ last'.output[1] \in {":(", ":|", "!"}]_vars

\* two stops with two routes, both routes registered: invalid, no output
C9_Witness ==
  /\ last.op = "plan"
  /\ last.ret = FALSE
  /\ last.stops = <<"A", "B">>
  /\ last.routes = <<1, 2>>
  /\ r_data.first = {1, 2}
  /\ last.output = <<>>

\* the prices the three rows hold at duration d
RowPrices(d) == [k \in 1..3 |-> t_data.second[k - 1][d].first]

----------------------------------------------------------------------------
(* The claims about the lists best_combination returns *)

\* the window the catalog holds for the ticket of this name
WindowOfName(n) ==
  t_data.first[CHOOSE i \in TicketIds : t_data.first[i].first = n].second

Windows(names) == [k \in 1..Len(names) |-> WindowOfName(names[k])]

\* the duration still to cover after the first k names of the list
Remaining(names, d, k) == d - SumSeq(SubSeq(Windows(names), 1, k))

\* the list the claim expects from a catalog of the single ticket (n, w)
Staircase(n, w, d) ==
  IF d <= w THEN <<n>>
  ELSE IF d <= 2 * w THEN <<n, n>>
  ELSE IF d <= 3 * w THEN <<n, n, n>>
  ELSE <<>>

\* C11: with exactly one registered ticket (n, p, w), w >= 1,
\* best_combination(d) returns [n] for 1 <= d <= w, [n, n] for w < d <= 2w,
\* [n, n, n] for 2w < d <= 3w and the empty list for d > 3w, for every d
\* in 1..MaxHorizon.
C11_OneTicketStaircase ==
  (/\ last.op = "fare"
   /\ last.trip_length \in 1..MAX_TRIP_LENGTH
   /\ Len(t_data.first) = 1) =>
    /\ ~last.undefined
    /\ last.out = Staircase(t_data.first[1].first, t_data.first[1].second,
                            last.trip_length)

\* C12: whenever best_combination(d) returns a non-empty list, the windows
\* of the returned tickets sum to at least d and the windows of all but the
\* last sum to less than d.
C12_WindowsCoverWithoutSurplus ==
  (last.op = "fare" /\ last.out # <<>>) =>
    /\ SumSeq(Windows(last.out)) >= last.trip_length
    /\ SumSeq(SubSeq(Windows(last.out), 1, Len(last.out) - 1))
         < last.trip_length

\* a list of two names was returned whose windows cover the duration
\* with something to spare
C12_Witness ==
  /\ last.op = "fare"
  /\ Len(last.out) = 2
  /\ last.trip_length \in RowIndex
  /\ SumSeq(Windows(last.out)) > last.trip_length
  /\ WindowOfName(last.out[1]) < last.trip_length

\* C13 as stated: whenever best_combination(d) returns a non-empty list,
\* the remaining duration is exactly 0 when the last name is emitted: the
\* windows of the returned tickets sum to exactly d.
C13_RemainingEndsAtZero ==
  (last.op = "fare" /\ last.out # <<>>) =>
    Remaining(last.out, last.trip_length, Len(last.out)) = 0

\* C13 amended: the remaining duration is above 0 before each name is
\* emitted and at or below 0 after the last one, short of the last ticket's
\* whole window: the windows sum to d or to more than d.
C13_RemainingEndsAtOrBelowZero ==
  (last.op = "fare" /\ last.out # <<>>) =>
    /\ \A k \in 0..(Len(last.out) - 1) :
         Remaining(last.out, last.trip_length, k) > 0
    /\ Remaining(last.out, last.trip_length, Len(last.out)) <= 0
    /\ Remaining(last.out, last.trip_length, Len(last.out))
         > 0 - WindowOfName(last.out[Len(last.out)])

\* one ticket with a window of 2 answers a query of 1: the remaining
\* duration ends at -1
C13_Witness ==
  /\ last.op = "fare"
  /\ last.trip_length = 1
  /\ Len(last.out) = 1
  /\ WindowOfName(last.out[1]) = 2
  /\ Remaining(last.out, last.trip_length, 1) = -1

\* C14: the reconstruction loop always ends; the list has exactly k names,
\* k in 1..3 being the selected ticket count (the first row holding the
\* lowest price at d); no list has more than 3 names, and no row below the
\* single-ticket row is read.
C14_ListHasSelectedCountNames ==
  (last.op = "fare" /\ last.trip_length \in 1..MAX_TRIP_LENGTH) =>
    /\ ~last.undefined
    /\ Len(last.out) <= 3
    /\ last.trip_length \in RowIndex =>
         Len(last.out) = count_loop(RowPrices(last.trip_length), 0, 0, INT_MAX)

----------------------------------------------------------------------------
(* The claims about the limits of a query and about the session *)

\* trip lengths on both sides of the range best_combination answers for
OutOfRangeLengths == {-1, 0, MAX_TRIP_LENGTH + 1, MAX_TRIP_LENGTH + 2}

\* C15: best_combination(d) returns the empty list for every d <= 0 and
\* every d > MaxHorizon whatever tickets are registered and whatever the
\* cells hold, those beyond the rows included; hence a valid trip with no
\* wait whose duration plus one exceeds MaxHorizon is answered "no fare".
C15_OutOfRangeDurationHasNoFare ==
  /\ \A d \in OutOfRangeLengths : \A g \in [0..2 -> PastEndCells] :
       optimal_ticket_set(t_data, d, g) = [undefined |-> FALSE, out |-> <<>>]
  /\ (/\ last.op = "plan"
      /\ last.ret
      /\ ~last.waits
      /\ last.trip_time + 1 > MAX_TRIP_LENGTH) =>
       /\ last.queried = <<last.trip_time + 1>>
       /\ ~last.undefined
       /\ last.optimal_tickets = <<>>
       /\ last.output = <<":|">>

\* a trip that takes MAX_TRIP_LENGTH got "no fare" while a ticket with the
\* longest window there is was on sale
C15_Witness ==
  /\ last.op = "plan"
  /\ last.ret
  /\ ~last.waits
  /\ last.trip_time = MAX_TRIP_LENGTH
  /\ last.output = <<":|">>
  /\ Len(t_data.first) = 1
  /\ t_data.first[1].second = MAX_TRIP_LENGTH

\* the number of names in the Priced result of a step, 0 for any other step
NamesPriced(l) ==
  IF l.op = "plan" /\ l.output # <<>> /\ l.output[1] = "!"
  THEN Len(l.output) - 1
  ELSE 0

\* C16: the tickets-sold counter starts at 0 and every step adds to it the
\* number of names of the Priced result it returns: nothing for a route or
\* ticket registration, an invalid query, a WaitRequired or a NoFareFound
\* result.
C16_SoldCountsPricedNames ==
  /\ tickets_sold = 0
  /\ [][tickets_sold' = tickets_sold + NamesPriced(last')]_vars

\* after a result of one name and more, a result of two names brought the
\* counter to 3
C16_Witness ==
  /\ last.op = "plan"
  /\ last.output = <<"!", "a", "a">>
  /\ tickets_sold = 3

\* C17: the schedule only grows: a point <stop, route> that has a time
\* keeps that time in every later state and is never removed, also when a
\* route registered later calls at the same stop.
C17_ScheduleIsAppendOnly ==
  [][\A p \in DOMAIN r_data.second :
       /\ p \in DOMAIN r_data'.second
       /\ r_data'.second[p] = r_data.second[p]]_vars

\* the second route was accepted; it calls at a stop of the first route at
\* another time, and both points are in the schedule
C17_Witness ==
  /\ last.op = "route"
  /\ last.ret
  /\ r_data.first = {1, 2}
  /\ \E stop \in StopNames :
       /\ create_schedule_point(1, stop) \in DOMAIN r_data.second
       /\ create_schedule_point(2, stop) \in DOMAIN r_data.second
       /\ r_data.second[create_schedule_point(1, stop)]
            # r_data.second[create_schedule_point(2, stop)]

----------------------------------------------------------------------------
(* The claims about the rows *)

\* C18: an accepted registration is visible to the very next query: right
\* after register_ticket(n, p, w) is accepted, best_combination(d) is not
\* empty and costs at most p, for every d with 1 <= d <= min(w, MaxHorizon).
C18_AcceptedTicketVisibleAtOnce ==
  (last.op = "ticket" /\ last.ret) =>
    \A d \in 1..Min2(last.expiration_time, MAX_TRIP_LENGTH) :
      \A g \in PastReads(d) :
        LET r == optimal_ticket_set(t_data, d, g)
        IN /\ ~r.undefined
           /\ r.out # <<>>
           /\ ListPrice(r.out) <= last.price

\* the ways to take exactly k catalogued tickets, in some order
Exactly(k) == [1..k -> TicketIds]

\* those whose windows sum to at least d
ExactCover(k, d) == {c \in Exactly(k) : WindowSum(c) >= d}

\* the price row k (of k tickets) holds at duration d
RowPrice(k, d) == t_data.second[k - 1][d].first

full_descent(row, price, id, expiration_time) ==
  [i \in RowIndex |->
     IF i >= 1 /\ i <= expiration_time /\ row[i].first > price
     THEN pair(price, id)
     ELSE row[i]]

\* C20: for every sequence of registrations, the single-ticket row (prices
\* and provenance) the early-stopping descent leaves is the row a full
\* descent from the expiration down to 1 would leave.
C20_EarlyStopEqualsFullDescent ==
  [][(last'.op = "ticket" /\ last'.ret) =>
       t_data'.second[0] =
         full_descent(t_data.second[0], last'.price, Len(t_data.first),
                      Min2(last'.expiration_time, MAX_TRIP_LENGTH))]_vars

\* the catalogued tickets whose window is at least d
CoveringAlone(d) == {i \in TicketIds : t_data.first[i].second >= d}

\* C21: in every reachable state the single-ticket row holds, at every d
\* from 1 up, the lowest price of a registered ticket whose clamped window
\* is at least d, or the unset sentinel when there is none; hence its
\* prices never decrease with d.
C21_SingleRowHoldsCheapestTicket ==
  /\ \A d \in RowIndex \ {0} :
       RowPrice(1, d) = IF CoveringAlone(d) = {} THEN INT_MAX
                        ELSE MinOf({ticket_prices[i] : i \in CoveringAlone(d)})
  /\ \A d, e \in RowIndex \ {0} : d <= e => RowPrice(1, d) <= RowPrice(1, e)

----------------------------------------------------------------------------
(* The claims about the order of registrations *)

\* a ticket as register_ticket is given it
Ticket(n, p, w) == [name |-> n, price |-> p, window |-> w]

\* the tickets_data after registering the tickets of the sequence ts in
\* turn, garbage[k] being what the k-th call reads beyond the row
RECURSIVE RegisterInOrder(_, _, _)
RegisterInOrder(data, ts, garbage) ==
  IF Len(ts) = 0 THEN data
  ELSE RegisterInOrder(add_new_ticket(data, ts[1].name, ts[1].price,
                                      ts[1].window, garbage[1]).data,
                       Tail(ts), Tail(garbage))

FreshData == pair(<<>>, initialize_optimal_ticket_set)

\* windows short enough for the one-ticket loop to stay inside the row
InnerWindows == 1..(MAX_TRIP_LENGTH - 1)

\* the prices of the two- and three-ticket rows of a table
UpperRowPrices(table) ==
  [k \in 1..2 |-> [d \in RowIndex |-> table[k][d].first]]

\* C22: register_ticket is not order-independent: while no ticket is
\* registered there are two tickets with distinct names whose registration
\* in the two orders leaves different prices in some cell of the two- or
\* three-ticket rows.
C22_OrderChangesTheTable ==
  Len(t_data.first) = 0 =>
    \E p1, p2 \in Prices, w1, w2 \in InnerWindows :
      LET t1 == Ticket("a", p1, w1)
          t2 == Ticket("A", p2, w2)
          none == <<INT_MAX, INT_MAX>>
      IN UpperRowPrices(RegisterInOrder(t_data, <<t1, t2>>, none).second)
           # UpperRowPrices(RegisterInOrder(t_data, <<t2, t1>>, none).second)

\* the catalogued ticket of this position, as it was registered
TicketAt(i) ==
  Ticket(t_data.first[i].first, ticket_prices[i], t_data.first[i].second)

\* two tickets were registered, both entered in the rows, and the other
\* order would have left other prices in the two- or three-ticket rows
C22_Witness ==
  /\ Len(t_data.first) = 2
  /\ \A i \in 1..2 : t_data.first[i].second \in InnerWindows
  /\ UpperRowPrices(t_data.second)
       # UpperRowPrices(RegisterInOrder(FreshData, <<TicketAt(2), TicketAt(1)>>,
                                        <<INT_MAX, INT_MAX>>).second)

\* the tables the catalogued tickets can leave when registered in any
\* order
TablesOfAnyOrder ==
  {RegisterInOrder(FreshData,
                   [k \in 1..Len(t_data.first) |-> TicketAt(o[k])], garbage) :
     o \in Permutations(TicketIds),
     garbage \in [1..Len(t_data.first) -> PastEndPrices]}

\* C23: for any set of tickets with distinct names and any d in
\* 1..MaxHorizon, whether best_combination(d) is empty and the total price
\* of its list are the same for every order of registration.
C23_AnswerIndependentOfOrder ==
  (last.op = "fare" /\ last.trip_length \in 1..MAX_TRIP_LENGTH) =>
    /\ ~last.undefined
    /\ \A data \in TablesOfAnyOrder : \A g \in PastReads(last.trip_length) :
         LET r == optimal_ticket_set(data, last.trip_length, g)
         IN /\ ~r.undefined
            /\ (r.out = <<>>) <=> (last.out = <<>>)
            /\ ListPrice(r.out) = ListPrice(last.out)

----------------------------------------------------------------------------
(* The claims about the cells *)

\* the lowest of the three prices a query at d reads
PriceRead(data, g, d) ==
  MinOf({read_cell(data.second, g, k, d).first : k \in 0..2})

\* C24: for every d in 1..MaxHorizon where best_combination(d) is not
\* empty, the prices of the returned tickets sum to the lowest of the
\* prices the three rows hold at d.
C24_ListCostsTheStoredPrice ==
  \A d \in 1..MAX_TRIP_LENGTH : \A g \in PastReads(d) :
    LET r == optimal_ticket_set(t_data, d, g)
    IN r.out # <<>> => ListPrice(r.out) = PriceRead(t_data, g, d)

\* C25: every row index read or written by the initialization, by
\* register_ticket (for any expiration >= 1, those clamped to MaxHorizon
\* included) and by best_combination (for any d in 1..MaxHorizon, MaxHorizon
\* included) is the index of a cell the row was given.
C25_IndicesAreInsideTheRows ==
  /\ \A i \in 0..2 : 0 \in DOMAIN t_data.second[i]
  /\ (last.op = "ticket" /\ last.ret) =>
       \A i \in 0..2 :
         add_new_ticket_indices(last.expiration_time)
           \subseteq DOMAIN t_data.second[i]
  /\ last.op = "fare" =>
       \A i \in 0..2 :
         optimal_ticket_set_indices(last.trip_length)
           \subseteq DOMAIN t_data.second[i]

\* C26: the rows and the catalog never shrink: across a register_ticket
\* call, as across any step, no cell's price rises, no cell with a set
\* price returns to the unset sentinel, and the name and window of every
\* ticket already catalogued stay as they are.
C26_TableAndCatalogNeverShrink ==
  [][/\ \A i \in 0..2, d \in RowIndex :
          /\ t_data'.second[i][d].first <= t_data.second[i][d].first
          /\ t_data.second[i][d].first < INT_MAX =>
               t_data'.second[i][d].first < INT_MAX
     /\ Len(t_data'.first) >= Len(t_data.first)
     /\ \A k \in 1..Len(t_data.first) : t_data'.first[k] = t_data.first[k]]_vars

\* the second ticket registered took over a cell of the single-ticket row
\* and a cell of the two-ticket row that the first ticket had set
C26_Witness ==
  /\ last.op = "ticket"
  /\ last.ret
  /\ Len(t_data.first) = 2
  /\ t_data.first[1].second = 1
  /\ ticket_prices[2] < ticket_prices[1]
  /\ t_data.second[0][1].second = 1
  /\ t_data.second[1][2].second = 1

\* the cell of row i (0 for the single-ticket row) at duration d
Cell(i, d) == t_data.second[i][d]

\* the window of the ticket with this id
WindowOfId(id) == t_data.first[id + 1].second

\* C27: in every reachable state and for every d >= 1 a cell holds the
\* unset sentinel price if and only if its provenance is none; the
\* provenance of a set cell is the id of a registered ticket; in the
\* single-ticket row that ticket has a window of at least d and the
\* cell's price; in the rows of two and three tickets it has a window
\* below d and the cell of the row below at d less that window is set.
C27_ProvenanceIsConsistent ==
  \A i \in 0..2, d \in RowIndex \ {0} :
    /\ (Cell(i, d).first = INT_MAX) <=> (Cell(i, d).second = -1)
    /\ Cell(i, d).first < INT_MAX =>
         /\ Cell(i, d).second \in 0..(Len(t_data.first) - 1)
         /\ i = 0 =>
              /\ WindowOfId(Cell(i, d).second) >= d
              /\ ticket_prices[Cell(i, d).second + 1] = Cell(i, d).first
         /\ i > 0 =>
              /\ WindowOfId(Cell(i, d).second) < d
              /\ Cell(i - 1, d - WindowOfId(Cell(i, d).second)).first < INT_MAX

\* a cell of the two-ticket row is set by one ticket on top of a cell of
\* the single-ticket row set by the other, and a cell of the three-ticket
\* row is set
C27_Witness ==
  /\ Len(t_data.first) = 2
  /\ \E d \in RowIndex \ {0} :
       /\ Cell(1, d).first < INT_MAX
       /\ Cell(0, d - WindowOfId(Cell(1, d).second)).second
            # Cell(1, d).second
  /\ \E d \in RowIndex \ {0} : Cell(2, d).first < INT_MAX

\* C28: in every accepted registration the candidate price of each cell j of
\* the two- and three-ticket rows, built on the cell of the row below at
\* j - expiration_time, lies between the ticket's price and INT_MAX without
\* wrapping; built on an unset cell it equals INT_MAX and the cell keeps its
\* old content; and the cell then holds the smaller of its old price and the
\* candidate, a price below INT_MAX whenever the cell is set.
C28_CandidateNeverWraps ==
  [][(last'.op = "ticket" /\ last'.ret) =>
       LET exp == t_data'.first[Len(t_data'.first)].second
       IN \A k \in 1..2 : \A j \in RowIndex :
            j >= exp + 1 =>
              LET below     == t_data'.second[k - 1][j - exp].first
                  candidate == tickets_price(last'.price, below)
                  old       == t_data.second[k][j]
                  new       == t_data'.second[k][j]
              IN /\ candidate >= last'.price
                 /\ candidate >= below
                 /\ candidate <= INT_MAX
                 /\ below = INT_MAX => candidate = INT_MAX /\ new = old
                 /\ new.first = Min2(old.first, candidate)
                 /\ new.second # -1 => new.first < INT_MAX]_vars

\* a ticket of positive price and window 1 was registered first: the cell at
\* 2 of the two-ticket row is stored on top of a set cell, the cell at 3 is
\* built on an unset cell and stays unset
C28_Witness ==
  /\ last.op = "ticket" /\ last.ret
  /\ last.price > 0
  /\ Len(t_data.first) = 1
  /\ Cell(0, 2) = default_pair
  /\ Cell(1, 2) = pair(2 * last.price, 0)
  /\ Cell(1, 3) = default_pair

\* C29: an accepted registration with an expiration time above
\* MAX_TRIP_LENGTH leaves the catalog and every cell of the table exactly as
\* the registration of the same name and price with expiration time
\* MAX_TRIP_LENGTH leaves them, and the catalog holds MAX_TRIP_LENGTH as the
\* ticket's window.
C29_ClampedLikeTheLimit ==
  [][(last'.op = "ticket" /\ last'.ret
        /\ last'.expiration_time > MAX_TRIP_LENGTH) =>
       /\ t_data'.first[Len(t_data'.first)]
            = pair(last'.ticket_name, MAX_TRIP_LENGTH)
       /\ \E g \in PastEndOf(MAX_TRIP_LENGTH) :
            t_data' = add_new_ticket(t_data, last'.ticket_name, last'.price,
                                     MAX_TRIP_LENGTH, g).data]_vars

\* a ticket registered with expiration time MAX_TRIP_LENGTH + 1 stands in
\* the catalog with window MAX_TRIP_LENGTH and has entered the
\* single-ticket row
C29_Witness ==
  /\ last.op = "ticket" /\ last.ret
  /\ last.expiration_time = MAX_TRIP_LENGTH + 1
  /\ t_data.first[Len(t_data.first)].second = MAX_TRIP_LENGTH
  /\ Cell(0, 1) = pair(last.price, Len(t_data.first) - 1)
  /\ Cell(0, MAX_TRIP_LENGTH - 1) = pair(last.price, Len(t_data.first) - 1)

----------------------------------------------------------------------------
(* The claim about the planner's schedule lookups *)

\* the schedule points scan_trip_request looks up with schedule.at
ScanReads(stops, routes) ==
  {Departure(stops, routes, i) : i \in 1..Len(routes)}
    \cup {Arrival(stops, routes, i) : i \in 1..Len(routes)}

\* C30: after every trip request, the scan has run only if the trip passed
\* the validator, every schedule point the scan looked up is in the
\* schedule, the trip time it computed is not negative, and a fare query,
\* if one was made, followed a scan and asked for a trip length of the trip
\* time plus one, which is at least 1.
C30_ScanLooksUpOnlyCheckedPoints ==
  last.op = "plan" =>
    /\ last.scanned =>
         /\ last.ret
         /\ ValidTrip(last.stops, last.routes, r_data.second)
         /\ ScanReads(last.stops, last.routes) \subseteq DOMAIN r_data.second
         /\ last.trip_time >= 0
    /\ last.queried # <<>> =>
         /\ last.scanned
         /\ last.queried = <<last.trip_time + 1>>
         /\ last.queried[1] >= 1

\* a trip of two legs on two different routes passed the validator, was
\* scanned and led to a fare query
C30_Witness ==
  /\ last.op = "plan"
  /\ last.scanned
  /\ Len(last.routes) = 2
  /\ last.routes[1] # last.routes[2]
  /\ last.trip_time > 0
  /\ last.queried = <<last.trip_time + 1>>

----------------------------------------------------------------------------
(* The claim about what a trip request leaves alone *)

\* C31: a trip request, whatever its outcome, leaves the set of route
\* numbers, the schedule, the ticket catalog and every cell of the rows as
\* they were; the tickets-sold counter is the only state it changes, and
\* it changes it only when it prints tickets.
C31_TripRequestChangesOnlyTheCounter ==
  [][last'.op = "plan" =>
       /\ r_data' = r_data
       /\ t_data' = t_data
       /\ ticket_prices' = ticket_prices
       /\ tickets_sold' >= tickets_sold
       /\ tickets_sold' # tickets_sold =>
            last'.output # <<>> /\ last'.output[1] = "!"]_vars

\* with two routes and a ticket registered, a trip request has printed
\* tickets and counted them
C31_Witness ==
  /\ last.op = "plan"
  /\ last.output # <<>> /\ last.output[1] = "!"
  /\ tickets_sold >= Len(last.optimal_tickets)
  /\ Len(last.optimal_tickets) >= 1
  /\ Cardinality(r_data.first) = 2
  /\ Len(t_data.first) >= 1

\* the other outcomes of a trip request, each with routes and a ticket
\* registered
C31_Rejected == last.op = "plan" /\ ~last.ret /\ Len(t_data.first) >= 1 /\ r_data.first # {}

C31_Waits == last.op = "plan" /\ last.waits /\ Len(t_data.first) >= 1

C31_NoFare ==
  last.op = "plan" /\ last.output = <<":|">> /\ Len(t_data.first) >= 1

----------------------------------------------------------------------------
(* The claim about the dispatcher's error reports *)

\* the reports a step appends to std::cerr
Emitted == SubSeq(cerr', Len(cerr) + 1, Len(cerr'))

\* the step read a line of one of the three grammars, ran the request it
\* names and the request returned false
Rejected ==
  /\ line'.form \in {"route", "ticket", "query"}
  /\ line_num' # line_num
  /\ ~last'.ret

\* C32: every line read advances the line count by one, the empty line
\* included; std::cerr only grows; an empty line is never reported; a
\* non-empty line that matches no grammar, or whose request is rejected, is
\* reported exactly once, with the number of lines read before it plus one,
\* and leaves the routes, the schedule, the catalog, the rows and the
\* tickets-sold counter as they were; any other line is not reported.
C32_OneReportPerBadLine ==
  [][(line_num' # line_num \/ running' # running) =>
       /\ running' => line_num' = line_num + 1
       /\ Len(cerr') >= Len(cerr)
       /\ SubSeq(cerr', 1, Len(cerr)) = cerr
       /\ IF line'.form = "" THEN Emitted = <<>>
          ELSE IF line'.form = "other" \/ Rejected
          THEN /\ Emitted = <<pair(line_num + 1, line')>>
               /\ UNCHANGED <<r_data, t_data, tickets_sold, ticket_prices>>
          ELSE Emitted = <<>>]_vars

\* after an empty first line, a second line of no grammar and a rejected
\* request on the third were reported as lines 2 and 3
C32_Witness ==
  /\ line_num = 3
  /\ Len(cerr) = 2
  /\ cerr[1].first = 2 /\ cerr[1].second.form = "other"
  /\ cerr[2].first = 3 /\ cerr[2].second.form \in {"route", "ticket", "query"}
  /\ cerr[2].second = line
  /\ ~last.ret

\* an accepted line after a reported one: nothing more on std::cerr
C32_AcceptedAfterReported ==
  /\ line_num = 2 /\ Len(cerr) = 1 /\ cerr[1].first = 1
  /\ line.form = "route" /\ last.op = "route" /\ last.ret

\* a number beyond int ended the process
C32_Terminated ==
  /\ ~running
  /\ line.form \in {"route", "ticket", "query"}
  /\ throws(line.numbers)
  /\ line_num = 1 /\ Len(cerr) = 1

\* a trip request of length MAX_TRIP_LENGTH ended in undefined behaviour
C32_UndefinedQuery == ~running /\ last.op = "plan" /\ last.undefined

====
